---- MODULE Spec2Model ----
(***************************************************************************)
(* Model of garmin_auth_wrapper.py: main() resumes or creates a Garmin     *)
(* session with the garth library, stores the credentials in GarminDB's    *)
(* config file, rewrites sys.argv and runs garmindb_cli.py in-process.     *)
(*                                                                         *)
(* Text is a sequence of one-character strings.  A command-line argument   *)
(* or path is a sequence of name parts, so that str.endswith and the `in`  *)
(* substring test are computed on the parts.  A JSON value is a record     *)
(* [t, s, m]: t its type, s its text (strings), m its members (objects),   *)
(* a sequence of <<key, value>> pairs.                                     *)
(***************************************************************************)
EXTENDS Integers, Sequences, FiniteSets, TLC

\* ------------------------------------------------------------------ bounds
MaxLen == 2       \* characters of an answer typed at a prompt
MaxArgs == 2      \* caller arguments after the wrapper's own name
MaxMembers == 2   \* members of the config document as found on disk
MaxInner == 1     \* members of a "credentials" object as found on disk

\* --------------------------------------------------------------- sequences
SeqsUpTo(S, n) == UNION {[1..k -> S] : k \in 0..n}

Contains(seq, x) == \E i \in 1..Len(seq) : seq[i] = x

RemoveAt(seq, i) == [j \in 1..(Len(seq) - 1) |-> IF j < i THEN seq[j] ELSE seq[j + 1]]

InsertAt(seq, i, x) ==
    [j \in 1..(Len(seq) + 1) |-> IF j < i THEN seq[j] ELSE IF j = i THEN x ELSE seq[j - 1]]

\* ------------------------------------------------------------ str methods
Whitespace == {" ", "\n"}

RECURSIVE LStrip(_)
LStrip(s) == IF s # <<>> /\ Head(s) \in Whitespace THEN LStrip(Tail(s)) ELSE s

RECURSIVE RStrip(_)
RStrip(s) ==
    IF s # <<>> /\ s[Len(s)] \in Whitespace THEN RStrip(SubSeq(s, 1, Len(s) - 1)) ELSE s

\* variant: the answer is used as read
StripNone(s) == s

\* str.strip()
Strip(s) == RStrip(LStrip(s))

\* str.endswith(suffix), on name parts
EndsWith(s, suffix) ==
    /\ Len(s) >= Len(suffix)
    /\ SubSeq(s, Len(s) - Len(suffix) + 1, Len(s)) = suffix

\* part in s (substring test), on name parts
HasPart(s, part) == Contains(s, part)

\* ----------------------------------------------------------------- paths
\* os.path.expanduser("~/.GarminDb")
GARMINDB_DIR == <<"~/.GarminDb">>

\* os.path.join(GARMINDB_DIR, "garth_session")
SESSION_DIR == GARMINDB_DIR \o <<"/", "garth_session">>

\* os.path.join(GARMINDB_DIR, "GarminConnectConfig.json")
config_file == GARMINDB_DIR \o <<"/", "GarminConnectConfig", ".json">>

target_cli == <<"garmindb_cli", ".py">>

WrapperName == <<"garmin_auth_wrapper", ".py">>

FallbackPath == <<"/usr/local/bin", "/", "garmindb_cli", ".py">>

\* os.path.join(d, name): an empty directory contributes nothing
PathJoin(d, name) == IF d = "" THEN name ELSE <<d, "/">> \o name

\* ------------------------------------------------------------------- JSON
JNull == [t |-> "null", s |-> <<>>, m |-> <<>>]
JStr(s) == [t |-> "str", s |-> s, m |-> <<>>]
JList == [t |-> "list", s |-> <<>>, m |-> <<>>]
JObj(m) == [t |-> "obj", s |-> <<>>, m |-> m]

\* {}
EmptyDict == JObj(<<>>)

\* dict: key in d
HasKey(m, k) == \E i \in 1..Len(m) : m[i][1] = k

KeyIndex(m, k) == CHOOSE i \in 1..Len(m) : m[i][1] = k

\* dict: d[k]
GetKey(m, k) == m[KeyIndex(m, k)][2]

\* dict: d[k] = v (an existing key keeps its place, a new key goes last)
DictSet(m, k, v) ==
    IF HasKey(m, k) THEN [m EXCEPT ![KeyIndex(m, k)] = <<k, v>>] ELSE Append(m, <<k, v>>)

Keys(m) == {m[i][1] : i \in 1..Len(m)}

\* json.load of an object's members: a repeated key keeps its last value
RECURSIVE LoadMembers(_, _)
LoadMembers(text, acc) ==
    IF text = <<>> THEN acc
    ELSE LoadMembers(Tail(text),
                     DictSet(acc, Head(text)[1],
                             IF Head(text)[2].t = "obj"
                             THEN JObj(LoadMembers(Head(text)[2].m, <<>>))
                             ELSE Head(text)[2]))

\* json.load: the Python value of a JSON text
JsonLoad(text) == IF text.t = "obj" THEN JObj(LoadMembers(text.m, <<>>)) ELSE text

\* json.dump(obj, f, indent=4): the text of a Python value
JsonDump(val) == [kind |-> "json", fmt |-> "indent4", val |-> val]

\* ------------------------------------------------------------------ state
VARIABLES
    pc,             \* the statement main() is at
    exitCode,       \* the process's exit status, -1 while it runs
    output,         \* the lines written to standard output, <<text, value>>
    flushed,        \* how many of them sys.stdout.flush() has pushed out
    session_valid,  \* main's local (line 22)
    garthClient,    \* garth.client: "fresh", "resumed" or "logged_in"
    garthClass,     \* what garth.Client names: "Client" or "Proxy"
    email,          \* main's local (line 45)
    password,       \* main's local (line 52)
    config_data,    \* main's local (line 73)
    sessionDir,     \* SESSION_DIR on disk: "absent", "empty", "old" or "new"
    configFile,     \* GarminConnectConfig.json on disk
    files,          \* the script paths that exist on disk
    pathDirs,       \* os.environ["PATH"] split at os.pathsep
    argv,           \* sys.argv
    target_path,    \* main's local (line 112), <<>> for None
    origArgv,       \* sys.argv as the caller gave it
    priorConfig,    \* the config file as the run found it
    priorSession,   \* SESSION_DIR as the run found it
    trace           \* what the run did: outcomes of the calls and their counts

vars == <<pc, exitCode, output, flushed, session_valid, garthClient, garthClass, email, password,
          config_data, sessionDir, configFile, files, pathDirs, argv, target_path,
          origArgv, priorConfig, priorSession, trace>>

ctlVars == <<pc, exitCode, output, flushed>>
authVars == <<session_valid, garthClient, garthClass>>
credVars == <<email, password, config_data>>
diskVars == <<sessionDir, configFile>>
envVars == <<files, pathDirs, origArgv, priorConfig, priorSession>>
argVars == <<argv, target_path>>

\* exitCode while the process has not exited
Running == 0 - 1

\* ------------------------------------------------------------ input sets
Chars == {"a", " "}

\* what sys.stdin.readline() can return: a line with its newline, or "" at end of file
Lines == {body \o <<"\n">> : body \in SeqsUpTo(Chars, MaxLen)} \cup {<<>>}

FileAbsent == [kind |-> "absent", fmt |-> "none", val |-> JNull]
FileUndecodable == [kind |-> "undecodable", fmt |-> "none", val |-> JNull]
FileInvalid == [kind |-> "invalid", fmt |-> "none", val |-> JNull]
FileJson(val) == [kind |-> "json", fmt |-> "compact", val |-> val]

InnerPairs == {<<"username", JStr(<<"o">>)>>, <<"extra", JStr(<<"e">>)>>}

CredTexts == {JNull, JStr(<<"x">>)} \cup {JObj(m) : m \in SeqsUpTo(InnerPairs, MaxInner)}

TopPairs == {<<"credentials", v>> : v \in CredTexts} \cup {<<"db", JStr(<<"d">>)>>}

DocTexts == {JNull, JList, JStr(<<"credentials">>)}
            \cup {JObj(m) : m \in SeqsUpTo(TopPairs, MaxMembers)}

ConfigFiles == {FileAbsent, FileUndecodable, FileInvalid} \cup {FileJson(d) : d \in DocTexts}

ArgF == <<"-f">>
ArgAll == <<"--all">>
ArgCliLog == <<"garmindb_cli", ".log">>
ArgOther == <<"other", ".py">>
OptBinPath == <<"/opt/bin", "/", "garmindb_cli", ".py">>

ArgPool == {ArgF, ArgAll, target_cli, ArgCliLog, ArgOther}

Argv0s == {WrapperName, <<"gaw">>}

Argvs == {<<a0>> \o rest : a0 \in Argv0s, rest \in SeqsUpTo(ArgPool, MaxArgs)}

PathSettings == {<<"">>, <<"/opt/bin">>, <<"/opt/bin", "/usr/local/bin">>}

NoTrace == [check |-> "none", login |-> "none", save |-> "none", config |-> "none",
            target |-> "none", exit |-> "none", asked |-> Running,
            resumes |-> 0, logins |-> 0, saves |-> 0, reads |-> 0, runs |-> 0]

InitWith(sessionDirs, configFiles, argvs, fileSets, pathSettings) ==
    /\ pc = "start"
    /\ exitCode = Running
    /\ output = <<>>
    /\ flushed = 0
    /\ session_valid = FALSE
    /\ garthClient = "fresh"
    /\ garthClass = "Client"
    /\ email = <<>>
    /\ password = <<>>
    /\ config_data = JNull
    /\ sessionDir \in sessionDirs
    /\ configFile \in configFiles
    /\ files \in fileSets
    /\ pathDirs \in pathSettings
    /\ argv \in argvs
    /\ target_path = <<>>
    /\ origArgv = argv
    /\ priorConfig = configFile
    /\ priorSession = sessionDir
    /\ trace = NoTrace

\* every config file, one argument vector
Init ==
    InitWith({"absent", "old"}, ConfigFiles, {<<WrapperName, target_cli, ArgAll>>},
             {{}, {FallbackPath}}, {<<"/opt/bin">>})

\* a few config files and argument vectors
InitSmall ==
    InitWith({"absent", "old"},
             {FileAbsent, FileInvalid, FileUndecodable, FileJson(JNull), FileJson(EmptyDict)},
             {<<WrapperName>>, <<WrapperName, target_cli, ArgAll>>},
             {{}, {FallbackPath}}, {<<"/opt/bin">>})

\* every argument vector, a few config files
InitArgv ==
    InitWith({"old"}, {FileAbsent}, Argvs,
             {fs \cup {ArgOther} : fs \in SUBSET {target_cli, OptBinPath, FallbackPath}},
             PathSettings)

\* ---------------------------------------------------------------- helpers
Emit(text, value) == output' = Append(output, <<text, value>>)

\* variant: the prompt stays in the buffer
FlushNothing == UNCHANGED flushed

\* lines 44, 51: sys.stdout.flush()
Flush == flushed' = Len(output')

\* ------------------------------------------------ 1. resume the session
\* line 19
Start ==
    /\ pc = "start"
    /\ Emit("[WRAPPER] Starting Garmin Auth Wrapper...", <<>>)
    /\ pc' = "check_exists"
    /\ UNCHANGED <<exitCode, authVars, credVars, diskVars, envVars, flushed, argVars, trace>>

\* line 24: os.path.exists(SESSION_DIR)
CheckExists ==
    /\ pc = "check_exists"
    /\ IF sessionDir # "absent"
       THEN pc' = "resume" /\ UNCHANGED trace
       ELSE pc' = "decide" /\ trace' = [trace EXCEPT !.check = "absent"]
    /\ UNCHANGED <<exitCode, output, authVars, credVars, diskVars, envVars, flushed, argVars>>

\* variant: a raising resume ends the process
ResumeRaisedFatal ==
    /\ Emit("[WRAPPER] Failed to resume session:", <<>>)
    /\ pc' = "done"
    /\ exitCode' = 1

\* lines 33-34: except Exception around the resume
ResumeRaised ==
    /\ Emit("[WRAPPER] Failed to resume session:", <<>>)
    /\ pc' = "decide"
    /\ UNCHANGED exitCode

\* line 25: garth.resume(SESSION_DIR), which returns or raises
Resume ==
    /\ pc = "resume"
    /\ \/ /\ garthClient' = "resumed"
          /\ pc' = "probe"
          /\ trace' = [trace EXCEPT !.resumes = @ + 1]
          /\ UNCHANGED <<exitCode, output>>
       \/ /\ ResumeRaised
          /\ trace' = [trace EXCEPT !.resumes = @ + 1, !.check = "resume_raised"]
          /\ UNCHANGED garthClient
    /\ UNCHANGED <<session_valid, garthClass, credVars, diskVars, envVars, flushed, argVars>>

\* variant: a failed probe still marks the session valid
ProbeFailedTrusted == TRUE

\* lines 31-32: a failed probe leaves session_valid as it was set at line 22
ProbeFailed == session_valid

\* lines 27-32: the liveness probe, reading garth.client.username
Probe ==
    /\ pc = "probe"
    /\ \/ /\ session_valid' = TRUE
          /\ Emit("[WRAPPER] Session resumed successfully.", <<>>)
          /\ trace' = [trace EXCEPT !.check = "valid"]
       \/ /\ session_valid' = ProbeFailed
          /\ Emit("[WRAPPER] Session invalid/expired.", <<>>)
          /\ trace' = [trace EXCEPT !.check = "probe_failed"]
    /\ pc' = "decide"
    /\ UNCHANGED <<exitCode, garthClient, garthClass, credVars, diskVars, envVars, flushed, argVars>>

\* ------------------------------------------------------ 2. the login flow
\* variant: the login flow is entered whatever the session check found
DecideAlwaysLogin ==
    /\ pc = "decide"
    /\ Emit("[WRAPPER] No valid session found. Starting interactive login...", <<>>)
    /\ pc' = "prompt_user"
    /\ UNCHANGED <<exitCode, authVars, credVars, diskVars, envVars, flushed, argVars, trace>>

\* lines 37-38
Decide ==
    /\ pc = "decide"
    /\ IF session_valid
       THEN pc' = "locate" /\ UNCHANGED output
       ELSE /\ Emit("[WRAPPER] No valid session found. Starting interactive login...", <<>>)
            /\ pc' = "prompt_user"
    /\ UNCHANGED <<exitCode, authVars, credVars, diskVars, envVars, flushed, argVars, trace>>

\* lines 43-44: the prompt and the flush
PromptUsername ==
    /\ pc = "prompt_user"
    /\ Emit("Username:", <<>>)
    /\ Flush
    /\ pc' = "read_user"
    /\ UNCHANGED <<exitCode, authVars, credVars, diskVars, envVars, argVars, trace>>

\* lines 46, 53: `not email`, `not password`
IsEmpty(answer) == answer = <<>>

\* lines 45-48
ReadUsername ==
    /\ pc = "read_user"
    /\ \E line \in Lines :
         /\ email' = Strip(line)
         /\ IF IsEmpty(email')
            THEN /\ Emit("[WRAPPER] No email provided. Aborting.", <<>>)
                 /\ pc' = "done"
                 /\ exitCode' = 1
                 /\ trace' = [trace EXCEPT !.reads = @ + 1, !.exit = "no_email"]
            ELSE /\ pc' = "prompt_pass"
                 /\ trace' = [trace EXCEPT !.reads = @ + 1]
                 /\ UNCHANGED <<exitCode, output>>
    /\ UNCHANGED <<authVars, password, config_data, diskVars, envVars, flushed, argVars>>

\* lines 50-51
PromptPassword ==
    /\ pc = "prompt_pass"
    /\ Emit("Password:", <<>>)
    /\ Flush
    /\ pc' = "read_pass"
    /\ UNCHANGED <<exitCode, authVars, credVars, diskVars, envVars, argVars, trace>>

\* lines 52-55
ReadPassword ==
    /\ pc = "read_pass"
    /\ \E line \in Lines :
         /\ password' = Strip(line)
         /\ IF IsEmpty(password')
            THEN /\ Emit("[WRAPPER] No password provided. Aborting.", <<>>)
                 /\ pc' = "done"
                 /\ exitCode' = 1
                 /\ trace' = [trace EXCEPT !.reads = @ + 1, !.exit = "no_password"]
            ELSE /\ pc' = "login"
                 /\ trace' = [trace EXCEPT !.reads = @ + 1]
                 /\ UNCHANGED <<exitCode, output>>
    /\ UNCHANGED <<authVars, email, config_data, diskVars, envVars, flushed, argVars>>

\* variant: the handler prints and goes on to the handoff
LoginFailedContinues ==
    /\ Emit("[WRAPPER] Login failed:", <<>>)
    /\ pc' = "locate"
    /\ UNCHANGED exitCode

\* lines 101-103: except Exception around the login, the save and the config update
LoginFailed ==
    /\ Emit("[WRAPPER] Login failed:", <<>>)
    /\ pc' = "done"
    /\ exitCode' = 1

\* variant: a login that raised sends the run back to the Username prompt
LoginRetries ==
    /\ pc = "login"
    /\ \/ /\ garthClient' = "logged_in"
          /\ Emit("[WRAPPER] Login successful!", <<>>)
          /\ pc' = "save"
          /\ trace' = [trace EXCEPT !.logins = @ + 1, !.login = "ok"]
          /\ UNCHANGED exitCode
       \/ /\ Emit("[WRAPPER] Login failed:", <<>>)
          /\ pc' = "prompt_user"
          /\ trace' = [trace EXCEPT !.logins = @ + 1, !.login = "raised"]
          /\ UNCHANGED <<exitCode, garthClient>>
    /\ UNCHANGED <<session_valid, garthClass, credVars, diskVars, envVars, flushed, argVars>>

\* lines 59-60: garth.login(email, password), which returns or raises
Login ==
    /\ pc = "login"
    /\ \/ /\ garthClient' = "logged_in"
          /\ Emit("[WRAPPER] Login successful!", <<>>)
          /\ pc' = "save"
          /\ trace' = [trace EXCEPT !.logins = @ + 1, !.login = "ok"]
          /\ UNCHANGED exitCode
       \/ /\ LoginFailed
          /\ trace' = [trace EXCEPT !.logins = @ + 1, !.login = "raised",
                                    !.exit = "login_failed"]
          /\ UNCHANGED garthClient
    /\ UNCHANGED <<session_valid, garthClass, credVars, diskVars, envVars, flushed, argVars>>

\* lines 63-66: os.makedirs and garth.save, each of which returns or raises
SaveSession ==
    /\ pc = "save"
    /\ \/ /\ sessionDir' = "new"
          /\ Emit("[WRAPPER] Session saved to", SESSION_DIR)
          /\ pc' = "cfg_read"
          /\ trace' = [trace EXCEPT !.saves = @ + 1, !.save = "ok"]
          /\ UNCHANGED exitCode
       \/ /\ sessionDir = "absent"
          /\ LoginFailed
          /\ trace' = [trace EXCEPT !.save = "makedirs_raised", !.exit = "login_failed"]
          /\ UNCHANGED sessionDir
       \/ /\ sessionDir' = IF sessionDir = "absent" THEN "empty" ELSE sessionDir
          /\ LoginFailed
          /\ trace' = [trace EXCEPT !.saves = @ + 1, !.save = "save_raised",
                                    !.exit = "login_failed"]
    /\ UNCHANGED <<authVars, credVars, configFile, envVars, flushed, argVars>>

\* ------------------------------------------- the credentials in the config
\* variant: a failed config update ends the process
ConfigErrorFatal ==
    /\ Emit("[WRAPPER] Warning: Failed to write config file:", <<>>)
    /\ pc' = "done"
    /\ exitCode' = 1

\* lines 98-99: except Exception around the config update
ConfigError ==
    /\ Emit("[WRAPPER] Warning: Failed to write config file:", <<>>)
    /\ pc' = "locate"
    /\ UNCHANGED exitCode

\* variant: a JSONDecodeError is not caught
ReadConfigStrict(file) ==
    CASE file.kind = "absent" -> [ok |-> TRUE, doc |-> EmptyDict]
      [] file.kind = "invalid" -> [ok |-> FALSE, doc |-> EmptyDict]
      [] file.kind = "json" -> [ok |-> TRUE, doc |-> JsonLoad(file.val)]
      [] OTHER -> [ok |-> FALSE, doc |-> EmptyDict]

\* lines 73-79: {} for no file and for a JSONDecodeError, the loaded value otherwise;
\* bytes that do not decode raise UnicodeDecodeError, which line 78 does not catch
ReadConfig(file) ==
    CASE file.kind = "absent" -> [ok |-> TRUE, doc |-> EmptyDict]
      [] file.kind = "invalid" -> [ok |-> TRUE, doc |-> EmptyDict]
      [] file.kind = "json" -> [ok |-> TRUE, doc |-> JsonLoad(file.val)]
      [] OTHER -> [ok |-> FALSE, doc |-> EmptyDict]

\* lines 73-79, where open() may raise as well
CfgRead ==
    /\ pc = "cfg_read"
    /\ \/ /\ ReadConfig(configFile).ok
          /\ config_data' = ReadConfig(configFile).doc
          /\ pc' = "cfg_merge"
          /\ UNCHANGED <<exitCode, output, trace>>
       \/ /\ ~ReadConfig(configFile).ok
          /\ ConfigError
          /\ trace' = [trace EXCEPT !.config = "undecodable"]
          /\ UNCHANGED config_data
       \/ /\ configFile.kind # "absent"
          /\ ConfigError
          /\ trace' = [trace EXCEPT !.config = "open_raised"]
          /\ UNCHANGED config_data
    /\ UNCHANGED <<authVars, email, password, diskVars, envVars, flushed, argVars>>

\* lines 82-86 raise TypeError unless config_data is a dict whose "credentials", when
\* present, is a dict: None and numbers fail at `in` (82), lists and strings at the
\* item assignment (83) or the string index (85), a non-dict "credentials" at 85
MergeRaises(doc) ==
    \/ doc.t # "obj"
    \/ HasKey(doc.m, "credentials") /\ GetKey(doc.m, "credentials").t # "obj"

\* lines 82-83
EnsureStructure(m) ==
    IF ~HasKey(m, "credentials") THEN DictSet(m, "credentials", EmptyDict) ELSE m

\* variant: "credentials" is replaced by a new dict
SetCredentialsFresh(m, user, pass) ==
    DictSet(m, "credentials",
            JObj(<<<<"username", JStr(user)>>, <<"password", JStr(pass)>>>>))

\* lines 85-86
SetCredentials(m, user, pass) ==
    DictSet(m, "credentials",
            JObj(DictSet(DictSet(GetKey(m, "credentials").m, "username", JStr(user)),
                         "password", JStr(pass))))

\* lines 82-86
CfgMerge ==
    /\ pc = "cfg_merge"
    /\ IF MergeRaises(config_data)
       THEN /\ ConfigError
            /\ trace' = [trace EXCEPT !.config = "type_error"]
            /\ UNCHANGED config_data
       ELSE /\ config_data' = JObj(SetCredentials(EnsureStructure(config_data.m),
                                                  email, password))
            /\ pc' = "cfg_write"
            /\ UNCHANGED <<exitCode, output, trace>>
    /\ UNCHANGED <<authVars, email, password, diskVars, envVars, flushed, argVars>>

\* lines 88-90: open(config_file, 'w') truncates the file, json.dump fills it
CfgWrite ==
    /\ pc = "cfg_write"
    /\ \/ /\ configFile' = JsonDump(config_data)
          /\ Emit("[WRAPPER] Credentials written to", config_file)
          /\ pc' = "cfg_verify"
          /\ UNCHANGED <<exitCode, trace>>
       \/ /\ ConfigError
          /\ trace' = [trace EXCEPT !.config = "open_raised"]
          /\ UNCHANGED configFile
       \/ /\ configFile' = FileInvalid
          /\ ConfigError
          /\ trace' = [trace EXCEPT !.config = "dump_raised"]
    /\ UNCHANGED <<authVars, credVars, sessionDir, envVars, flushed, argVars>>

\* variant: the read-back logs the other stored field
StoredPassword(file) ==
    IF /\ file.kind = "json"
       /\ JsonLoad(file.val).t = "obj"
       /\ HasKey(JsonLoad(file.val).m, "credentials")
       /\ HasKey(GetKey(JsonLoad(file.val).m, "credentials").m, "password")
    THEN GetKey(GetKey(JsonLoad(file.val).m, "credentials").m, "password")
    ELSE JNull

\* line 95: verify_data.get('credentials', {}).get('username')
StoredUsername(file) ==
    IF /\ file.kind = "json"
       /\ JsonLoad(file.val).t = "obj"
       /\ HasKey(JsonLoad(file.val).m, "credentials")
       /\ HasKey(GetKey(JsonLoad(file.val).m, "credentials").m, "username")
    THEN GetKey(GetKey(JsonLoad(file.val).m, "credentials").m, "username")
    ELSE JNull

\* lines 93-96: the file is read back and the stored username logged
CfgVerify ==
    /\ pc = "cfg_verify"
    /\ \/ /\ Emit("[WRAPPER] VERIFICATION: Config file contains username:",
                  StoredUsername(configFile).s)
          /\ pc' = "locate"
          /\ trace' = [trace EXCEPT !.config = "ok"]
          /\ UNCHANGED exitCode
       \/ /\ ConfigError
          /\ trace' = [trace EXCEPT !.config = "verify_raised"]
    /\ UNCHANGED <<authVars, credVars, diskVars, envVars, flushed, argVars>>

\* ------------------------------------------------- 3. launch the CLI tool
\* lines 115-118: the caller named a script that exists
ExplicitScript(av, fs) ==
    /\ Len(av) > 1
    /\ EndsWith(av[2], <<".py">>)
    /\ av[2] \in fs

\* lines 125-128
SearchDirs(pd) == IF Contains(pd, "/usr/local/bin") THEN pd ELSE Append(pd, "/usr/local/bin")

\* lines 130-134: the first directory that holds target_cli, <<>> when none does
RECURSIVE FirstExisting(_, _)
FirstExisting(dirs, fs) ==
    IF dirs = <<>> THEN <<>>
    ELSE IF PathJoin(Head(dirs), target_cli) \in fs THEN PathJoin(Head(dirs), target_cli)
    ELSE FirstExisting(Tail(dirs), fs)

\* variant: the caller's script or else the fallback, PATH is not searched
LocateTargetNoPath(av, fs, pd) ==
    IF ExplicitScript(av, fs) THEN av[2] ELSE FallbackPath

\* lines 112-138
LocateTarget(av, fs, pd) ==
    IF ExplicitScript(av, fs) THEN av[2]
    ELSE IF FirstExisting(SearchDirs(pd), fs) # <<>> THEN FirstExisting(SearchDirs(pd), fs)
    ELSE FallbackPath

\* line 121: sys.argv.pop(0) when the caller's script is taken
PopWrapper(av, fs) == IF ExplicitScript(av, fs) THEN Tail(av) ELSE av

\* lines 110-138
Locate ==
    /\ pc = "locate"
    /\ target_path' = LocateTarget(argv, files, pathDirs)
    /\ argv' = PopWrapper(argv, files)
    /\ pc' = "patch"
    /\ UNCHANGED <<exitCode, output, authVars, credVars, diskVars, envVars, flushed, trace>>

\* variant: the announcement is printed and garth.Client left as it is
PatchSkipped ==
    /\ pc = "patch"
    /\ UNCHANGED garthClass
    /\ output' = output \o <<<<"[WRAPPER] Monkey-patching garth.Client...", <<>>>>,
                             <<"[WRAPPER] Launching in-process:", target_path>>,
                             <<"[WRAPPER] Args:", argv>>>>
    /\ pc' = "rewrite"
    /\ UNCHANGED <<exitCode, session_valid, garthClient, credVars, diskVars, envVars, flushed,
                   argVars, trace>>

\* lines 142-156: garth.Client becomes AuthenticatedClientProxy
Patch ==
    /\ pc = "patch"
    /\ garthClass' = "Proxy"
    /\ output' = output \o <<<<"[WRAPPER] Monkey-patching garth.Client...", <<>>>>,
                             <<"[WRAPPER] Launching in-process:", target_path>>,
                             <<"[WRAPPER] Args:", argv>>>>
    /\ pc' = "rewrite"
    /\ UNCHANGED <<exitCode, session_valid, garthClient, credVars, diskVars, envVars, flushed,
                   argVars, trace>>

\* lines 147-152: what garth.Client(...) gives the target
ConstructedClient == IF garthClass = "Proxy" THEN garthClient ELSE "fresh"

\* lines 161-165
FixArgv0(av, tp) ==
    IF EndsWith(av[1], WrapperName)
    THEN IF Len(av) > 1 /\ HasPart(av[2], "garmindb_cli")
         THEN RemoveAt([av EXCEPT ![1] = tp], 2)
         ELSE [av EXCEPT ![1] = tp]
    ELSE av

\* variant: the flag is inserted without looking for it
InjectFlagAlways(av) == InsertAt(InsertAt(av, 2, GARMINDB_DIR), 2, ArgF)

\* lines 169-172
InjectFlag(av) ==
    IF ~Contains(av, ArgF) THEN InsertAt(InsertAt(av, 2, GARMINDB_DIR), 2, ArgF) ELSE av

\* lines 161-172
Rewrite ==
    /\ pc = "rewrite"
    /\ argv' = InjectFlag(FixArgv0(argv, target_path))
    /\ IF ~Contains(FixArgv0(argv, target_path), ArgF)
       THEN Emit("[WRAPPER] Injecting -f", GARMINDB_DIR)
       ELSE UNCHANGED output
    /\ pc' = "run"
    /\ UNCHANGED <<exitCode, authVars, credVars, diskVars, envVars, flushed, target_path, trace>>

\* the statuses the target may pass to sys.exit
TargetExitCodes == {0, 2}

\* variant: the target's SystemExit is caught like an error
SystemExitCaught(n) == 1

\* lines 174-176: SystemExit is no Exception, so the target's sys.exit(n) passes
\* the handler and ends the process with n
SystemExitStatus(n) == n

\* variant: the failure is logged and the process ends as if all went well
ExecutionFailedExitsZero ==
    /\ Emit("[WRAPPER] Execution failed:", <<>>)
    /\ pc' = "done"
    /\ exitCode' = 0

\* lines 176-180: except Exception around the rewriting and the run
ExecutionFailed ==
    /\ Emit("[WRAPPER] Execution failed:", <<>>)
    /\ pc' = "done"
    /\ exitCode' = 1

\* lines 174-180: runpy.run_path(target_path, run_name='__main__')
RunTarget ==
    /\ pc = "run"
    /\ \/ /\ target_path \notin files
          /\ ExecutionFailed
          /\ trace' = [trace EXCEPT !.runs = @ + 1, !.target = "missing",
                                    !.exit = "execution_failed"]
       \/ /\ target_path \in files
          /\ pc' = "done"
          /\ exitCode' = 0
          /\ trace' = [trace EXCEPT !.runs = @ + 1, !.target = "returned",
                                    !.exit = "returned"]
          /\ UNCHANGED output
       \/ /\ target_path \in files
          /\ ExecutionFailed
          /\ trace' = [trace EXCEPT !.runs = @ + 1, !.target = "raised",
                                    !.exit = "execution_failed"]
       \/ /\ target_path \in files
          /\ \E n \in TargetExitCodes :
               /\ pc' = "done"
               /\ exitCode' = SystemExitStatus(n)
               /\ trace' = [trace EXCEPT !.runs = @ + 1, !.target = "exited",
                                         !.exit = "target_exit", !.asked = n]
          /\ UNCHANGED output
    /\ UNCHANGED <<authVars, credVars, diskVars, envVars, flushed, argVars>>

\* ---------------------------------------------------------- specifications
Next ==
    \/ Start
    \/ CheckExists
    \/ Resume
    \/ Probe
    \/ Decide
    \/ PromptUsername
    \/ ReadUsername
    \/ PromptPassword
    \/ ReadPassword
    \/ Login
    \/ SaveSession
    \/ CfgRead
    \/ CfgMerge
    \/ CfgWrite
    \/ CfgVerify
    \/ Locate
    \/ Patch
    \/ Rewrite
    \/ RunTarget

Spec == Init /\ [][Next]_vars

SpecArgv == InitArgv /\ [][Next]_vars

SpecSmall == InitSmall /\ [][Next]_vars

\* main() is one thread that runs each statement it reaches
FairSpec == InitSmall /\ [][Next]_vars /\ WF_vars(Next)

\* ------------------------------------------------------ claim vocabulary
UsernamePrompt == <<"Username:", <<>>>>
PasswordPrompt == <<"Password:", <<>>>>
ConfigWarning == <<"[WRAPPER] Warning: Failed to write config file:", <<>>>>

\* the statements of part 3, the handoff
HandoffPcs == {"locate", "patch", "rewrite", "run"}

HandoffReached == pc \in HandoffPcs \/ trace.runs > 0

\* the config update of lines 71-99 is over
AfterPersist == trace.save = "ok" /\ (pc \in HandoffPcs \/ pc = "done")

\* an open(), json.dump() or read-back that the operating system failed
IoFailures == {"open_raised", "dump_raised", "verify_raised"}

\* lines 88-89 ran to the end
WriteCompleted == pc = "cfg_verify" \/ trace.config \in {"ok", "verify_raised"}

AllWhitespace(s) == \A i \in 1..Len(s) : s[i] \in Whitespace

\* the document a config file holds, as json.load gives it
DocOf(file) == JsonLoad(file.val)

HoldsCredentials(file, user, pass) ==
    /\ file.kind = "json"
    /\ DocOf(file).t = "obj"
    /\ HasKey(DocOf(file).m, "credentials")
    /\ GetKey(DocOf(file).m, "credentials").t = "obj"
    /\ HasKey(GetKey(DocOf(file).m, "credentials").m, "username")
    /\ HasKey(GetKey(DocOf(file).m, "credentials").m, "password")
    /\ GetKey(GetKey(DocOf(file).m, "credentials").m, "username") = JStr(user)
    /\ GetKey(GetKey(DocOf(file).m, "credentials").m, "password") = JStr(pass)

Aborted ==
    /\ pc = "done"
    /\ exitCode \notin {0, Running}
    /\ trace.logins = 0
    /\ trace.saves = 0
    /\ sessionDir = priorSession
    /\ configFile = priorConfig
    /\ trace.runs = 0

\* ------------------------------------------------------------------ claims
\* C1: when SESSION_DIR exists and garth.resume returns but reading
\* garth.client.username fails, the session counts as invalid: session_valid is
\* false from then on, the handoff is reached only after a login and a save that
\* succeeded, no statement after line 43 is reached without the Username prompt
\* on the output, and the run ends either on an empty answer or after garth.login
\* was called.
C1_ProbeFailureIsInvalid ==
    trace.check = "probe_failed" =>
        /\ ~session_valid
        /\ HandoffReached => trace.login = "ok" /\ trace.save = "ok"
        /\ pc \notin {"decide", "prompt_user"} => Contains(output, UsernamePrompt)
        /\ pc = "done" /\ trace.exit \notin {"no_email", "no_password"} => trace.logins = 1

C1_Witness ==
    /\ trace.check = "probe_failed"
    /\ priorSession = "old"
    /\ trace.resumes = 1
    /\ trace.logins = 1
    /\ pc = "done"

\* C2: an absent session directory, a raising garth.resume and a failing probe
\* are not fatal: each is followed by the Username prompt on the output.
C2_InvalidSessionReachesPrompt ==
    (trace.check \in {"absent", "resume_raised", "probe_failed"})
        ~> Contains(output, UsernamePrompt)

C2_Witness ==
    /\ trace.check = "resume_raised"
    /\ Contains(output, UsernamePrompt)
    /\ exitCode = Running

\* C3: an answer to the Username or Password prompt that is empty after trimming
\* ends the process with a non-zero status, with garth.login never called, the
\* session directory and the config file as they were, and no target run; so
\* garth.login is only ever called with two answers that hold a visible character.
C3_EmptyAnswerAborts ==
    /\ trace.reads >= 1 /\ AllWhitespace(email) => Aborted
    /\ trace.reads >= 2 /\ AllWhitespace(password) => Aborted
    /\ trace.logins > 0 => ~AllWhitespace(email) /\ ~AllWhitespace(password)

C3_Witness ==
    /\ trace.reads = 2
    /\ ~AllWhitespace(email)
    /\ AllWhitespace(password)
    /\ trace.exit = "no_password"
    /\ exitCode = 1

\* C4 (as claimed): after a successful login, whatever the config file held
\* (nothing, invalid syntax or any valid JSON document), and with no open(),
\* dump or read-back failing, the session directory holds the new session and
\* credentials.username and credentials.password are the answers given.
C4_CredentialsAlwaysStored ==
    /\ AfterPersist
    /\ priorConfig.kind \in {"absent", "invalid", "json"}
    /\ trace.config \notin IoFailures
    => /\ sessionDir = "new"
       /\ HoldsCredentials(configFile, email, password)

\* C5: the write is a merge: for a valid config document, once lines 88-89 have
\* written the file, every top-level key other than "credentials" and every key
\* of "credentials" other than username and password has the value it had.
C5_MergeKeepsOtherKeys ==
    priorConfig.kind = "json" /\ WriteCompleted =>
        /\ configFile.kind = "json"
        /\ DocOf(priorConfig).t = "obj"
        /\ DocOf(configFile).t = "obj"
        /\ \A k \in Keys(DocOf(priorConfig).m) \ {"credentials"} :
             /\ HasKey(DocOf(configFile).m, k)
             /\ GetKey(DocOf(configFile).m, k) = GetKey(DocOf(priorConfig).m, k)
        /\ HasKey(DocOf(priorConfig).m, "credentials") =>
             \A k \in Keys(GetKey(DocOf(priorConfig).m, "credentials").m)
                        \ {"username", "password"} :
                /\ HasKey(GetKey(DocOf(configFile).m, "credentials").m, k)
                /\ GetKey(GetKey(DocOf(configFile).m, "credentials").m, k)
                     = GetKey(GetKey(DocOf(priorConfig).m, "credentials").m, k)

C5_Witness ==
    /\ WriteCompleted
    /\ priorConfig.kind = "json"
    /\ DocOf(priorConfig).t = "obj"
    /\ HasKey(DocOf(priorConfig).m, "db")
    /\ HasKey(DocOf(priorConfig).m, "credentials")
    /\ HasKey(GetKey(DocOf(priorConfig).m, "credentials").m, "extra")
    /\ HoldsCredentials(configFile, email, password)

C7_ConfigFailureIsWarning ==
    trace.config \notin {"none", "ok"} =>
        /\ trace.login = "ok" /\ trace.save = "ok"
        /\ Contains(output, ConfigWarning)
        /\ pc \in HandoffPcs \/ pc = "done"
        /\ pc = "done" =>
             /\ trace.runs = 1
             /\ trace.exit \in {"returned", "execution_failed", "target_exit"}

C7_Witness ==
    /\ trace.config = "dump_raised"
    /\ configFile = FileInvalid
    /\ pc = "done"
    /\ trace.runs = 1

LoginCallRaised == trace.login = "raised"

SaveRaised == trace.save \in {"makedirs_raised", "save_raised"}

\* C8 (as claimed): the login-failed exit is taken exactly when garth.login
\* raises; when garth.login returns, the run reaches the handoff and the target
\* is run; when it raises, the process exits non-zero and no target is run.
C8_FatalExactlyWhenLoginRaises ==
    /\ trace.exit = "login_failed" <=> LoginCallRaised
    /\ trace.login = "ok" /\ pc = "done" => trace.runs = 1
    /\ LoginCallRaised => pc = "done" /\ exitCode = 1 /\ trace.runs = 0

\* C8 (amended): once both answers are read, the login-failed exit is the only
\* fatal path before the handoff, and it is taken exactly when garth.login,
\* os.makedirs or garth.save raises: when all of them return, the target is run,
\* whatever the config update does; when one raises, the process exits with
\* status 1 and no target is run.
C8_FatalExactlyWhenLoginOrSaveRaises ==
    /\ trace.exit = "login_failed" <=> (LoginCallRaised \/ SaveRaised)
    /\ trace.login = "ok" /\ trace.save = "ok" /\ pc = "done" => trace.runs = 1
    /\ (LoginCallRaised \/ SaveRaised) => pc = "done" /\ exitCode = 1 /\ trace.runs = 0
    /\ trace.logins = 1 /\ pc = "done" /\ trace.runs = 0 => (LoginCallRaised \/ SaveRaised)

C8_Witness ==
    /\ trace.login = "ok"
    /\ trace.save = "save_raised"
    /\ pc = "done"
    /\ exitCode = 1

\* sys.argv is what the target is run with
ArgvHandedOver == pc = "run" \/ trace.runs > 0

Count(seq, x) == Cardinality({i \in 1..Len(seq) : seq[i] = x})

\* C9: the flag is injected exactly once.  A caller vector without "-f" reaches
\* the target with one "-f", right after argv[0] and followed by GARMINDB_DIR; a
\* caller vector with "-f" reaches it with nothing inserted and each "-f" still
\* followed by the caller's value; injecting again changes nothing.
C9_FlagInjectedOnce ==
    ArgvHandedOver =>
        /\ ~Contains(origArgv, ArgF) =>
             /\ Count(argv, ArgF) = 1
             /\ argv[2] = ArgF
             /\ argv[3] = GARMINDB_DIR
        /\ Contains(origArgv, ArgF) =>
             /\ Count(argv, ArgF) = Count(origArgv, ArgF)
             /\ Count(argv, GARMINDB_DIR) = 0
             /\ Len(argv) <= Len(origArgv)
             /\ \A i \in 1..Len(origArgv) :
                  origArgv[i] = ArgF /\ i < Len(origArgv) =>
                      \E j \in 1..(Len(argv) - 1) :
                          argv[j] = ArgF /\ argv[j + 1] = origArgv[i + 1]
        /\ InjectFlag(argv) = argv

C9_Witness ==
    /\ ArgvHandedOver
    /\ ~Contains(origArgv, ArgF)
    /\ Len(origArgv) = 3
    /\ Count(argv, ArgF) = 1
    /\ trace.target = "returned"

\* the caller's argv[1] names the script to run: it was taken as the target
\* (lines 115-119) or it is a path to garmindb_cli.py
CallerNamesScript(av, fs) ==
    /\ Len(av) > 1
    /\ ExplicitScript(av, fs) \/ EndsWith(av[2], target_cli)

\* the caller's arguments other than the wrapper's name and the script's
CallerArgs(av, fs) == IF CallerNamesScript(av, fs) THEN Tail(Tail(av)) ELSE Tail(av)

\* a is b with some elements left out
RECURSIVE IsSubseq(_, _)
IsSubseq(a, b) ==
    IF a = <<>> THEN TRUE
    ELSE IF b = <<>> THEN FALSE
    ELSE IF Head(a) = Head(b) THEN IsSubseq(Tail(a), Tail(b))
    ELSE IsSubseq(a, Tail(b))

\* C10 (as claimed): every caller argument other than the wrapper's name and the
\* script's reaches the target after argv[0], in the caller's order.
C10_OtherArgumentsPreserved ==
    ArgvHandedOver => IsSubseq(CallerArgs(origArgv, files), Tail(argv))

C12_ValidSessionSkipsLogin ==
    /\ trace.check = "valid" =>
           /\ session_valid
           /\ pc \in {"decide", "done"} \cup HandoffPcs
           /\ ~Contains(output, UsernamePrompt)
           /\ ~Contains(output, PasswordPrompt)
           /\ trace.reads = 0
           /\ trace.logins = 0
           /\ trace.saves = 0
           /\ trace.config = "none"
           /\ sessionDir = priorSession
           /\ configFile = priorConfig
    /\ trace.saves > 0 => trace.login = "ok" /\ trace.logins = 1
    /\ sessionDir # priorSession => trace.login = "ok"

C12_Witness ==
    /\ trace.check = "valid"
    /\ priorSession = "old"
    /\ priorConfig.kind = "json"
    /\ trace.target = "returned"
    /\ exitCode = 0

\* an answer is being awaited from standard input
ReadPcs == {"read_user", "read_pass"}

PromptsEmitted == Count(output, UsernamePrompt) + Count(output, PasswordPrompt)

\* C13: the prompt protocol.  "Username:" and "Password:" are each emitted at
\* most once and the Password prompt only after the Username prompt; every
\* prompt on the output has been flushed, and while an answer is awaited the
\* prompt is the last line written and the whole output is flushed; one line is
\* read per prompt emitted; the Password prompt is emitted only after a
\* non-empty username was read.
C13_PromptProtocol ==
    /\ Count(output, UsernamePrompt) <= 1
    /\ Count(output, PasswordPrompt) <= 1
    /\ \A j \in 1..Len(output) :
           output[j] = PasswordPrompt => \E i \in 1..(j - 1) : output[i] = UsernamePrompt
    /\ \A i \in 1..Len(output) :
           output[i] \in {UsernamePrompt, PasswordPrompt} => i <= flushed
    /\ pc = "read_user" => output[Len(output)] = UsernamePrompt /\ flushed = Len(output)
    /\ pc = "read_pass" => output[Len(output)] = PasswordPrompt /\ flushed = Len(output)
    /\ trace.reads = PromptsEmitted - (IF pc \in ReadPcs THEN 1 ELSE 0)
    /\ Contains(output, PasswordPrompt) => trace.reads >= 1 /\ ~IsEmpty(email)

C13_Witness ==
    /\ Contains(output, UsernamePrompt)
    /\ Contains(output, PasswordPrompt)
    /\ trace.reads = 2
    /\ flushed > 0
    /\ trace.login = "ok"

\* C14 (as claimed): whenever the write of the config file is cut short, a file
\* that held a valid document holds either that document or the complete new
\* one, never an empty or truncated text.
C14_ConfigWriteIsCrashSafe ==
    priorConfig.kind = "json" =>
        \/ configFile = priorConfig
        \/ configFile = JsonDump(config_data)

VerificationText == "[WRAPPER] VERIFICATION: Config file contains username:"
ArgsText == "[WRAPPER] Args:"

\* the output line carries the text: as its value, or for the argument dump of
\* line 155 as one of the arguments
Mentions(line, secret) ==
    IF line[1] = ArgsText
    THEN \E i \in 1..Len(line[2]) : line[2][i] = secret
    ELSE line[2] = secret

VerificationLines == {i \in 1..Len(output) : output[i][1] = VerificationText}

\* C15: the password read at the prompt (when it differs from the username) is
\* in no line the wrapper writes, whether the run ends in success, a config
\* warning, a failed login or after the argument dump; the read-back of the
\* config file writes at most one line and that line carries the username that
\* was stored, while the file holds the password.
C15_PasswordNeverPrinted ==
    /\ ~IsEmpty(password) /\ password # email =>
           \A i \in 1..Len(output) : ~Mentions(output[i], password)
    /\ Cardinality(VerificationLines) <= 1
    /\ \A i \in VerificationLines : output[i][2] = email
    /\ trace.config = "ok" =>
           /\ Cardinality(VerificationLines) = 1
           /\ HoldsCredentials(configFile, email, password)

C15_Witness ==
    /\ ~IsEmpty(password)
    /\ password # email
    /\ trace.config = "ok"
    /\ Cardinality(VerificationLines) = 1
    /\ \E i \in 1..Len(output) : output[i][1] = ArgsText
    /\ trace.target = "returned"

\* runpy.run_path is about to be called, or was called on an existing script
TargetInvoked == trace.target \in {"returned", "raised", "exited"}

AuthenticatedClients == {"resumed", "logged_in"}

\* C16: in every run that invokes the target three orderings hold.  The session
\* is trusted only after the probe or a login succeeded; when a login happened,
\* garth.save completed and SESSION_DIR holds the new session before the target
\* runs; garth.Client is the proxy before the target runs, so the client the
\* target constructs is the authenticated garth.client of this process.
C16_HandoffOrderings ==
    /\ session_valid => trace.check = "valid"
    /\ pc = "run" \/ TargetInvoked =>
           /\ trace.check = "valid" \/ trace.login = "ok"
           /\ trace.logins > 0 => trace.save = "ok" /\ sessionDir = "new"
           /\ garthClass = "Proxy"
           /\ ConstructedClient = garthClient
           /\ ConstructedClient \in AuthenticatedClients

C16_Witness ==
    /\ TargetInvoked
    /\ trace.check = "probe_failed"
    /\ trace.login = "ok"
    /\ trace.save = "ok"
    /\ ConstructedClient = "logged_in"

\* lines 110-138 are over
Located == pc \in {"patch", "rewrite", "run"} \/ trace.runs > 0

\* the places of lines 125-134, in the order they are tried
CandidateDirs ==
    IF \E i \in 1..Len(pathDirs) : pathDirs[i] = "/usr/local/bin"
    THEN pathDirs
    ELSE pathDirs \o <<"/usr/local/bin">>

CandidateHits == {i \in 1..Len(CandidateDirs) : PathJoin(CandidateDirs[i], target_cli) \in files}

\* C17 (as claimed): the target is looked for in exactly two places, the
\* caller's explicit path when it exists and otherwise the fixed fallback
\* /usr/local/bin/garmindb_cli.py; nothing else determines the path invoked.
C17_TwoPlacesOnly ==
    Located =>
        target_path = IF Len(origArgv) > 1 /\ origArgv[2] \in files
                      THEN origArgv[2]
                      ELSE FallbackPath

\* C17 (amended): the target is the caller's first argument when it ends in
\* ".py" and exists; otherwise garmindb_cli.py in the first directory that
\* holds it among the PATH directories followed by /usr/local/bin (when PATH
\* does not list it); otherwise the fixed fallback.
C17_ExplicitThenPathThenFallback ==
    Located =>
        IF Len(origArgv) > 1 /\ EndsWith(origArgv[2], <<".py">>) /\ origArgv[2] \in files
        THEN target_path = origArgv[2]
        ELSE IF CandidateHits # {}
        THEN \E i \in CandidateHits :
                 /\ \A j \in CandidateHits : i <= j
                 /\ target_path = PathJoin(CandidateDirs[i], target_cli)
        ELSE target_path = FallbackPath

C17_Witness ==
    /\ pc = "run"
    /\ ~ExplicitScript(origArgv, files)
    /\ FallbackPath \in files
    /\ target_path = OptBinPath
    /\ target_path # FallbackPath

\* no place of lines 115-138 holds a script
NoScriptAnywhere ==
    /\ ~(Len(origArgv) > 1 /\ EndsWith(origArgv[2], <<".py">>) /\ origArgv[2] \in files)
    /\ CandidateHits = {}
    /\ FallbackPath \notin files

ExecutionFailedLine == <<"[WRAPPER] Execution failed:", <<>>>>

\* a step of the handoff leaves SESSION_DIR and the config file alone
HandoffKeepsDisk == (pc \in HandoffPcs) => UNCHANGED diskVars

\* running a script that is not there ends the process with status 1
MissingTargetStep ==
    (pc = "run" /\ target_path \notin files) =>
        pc' = "done" /\ exitCode' = 1 /\ trace'.target = "missing"

\* C18: when the target script is in none of the places searched, the run of
\* line 174 fails at once: the process exits with status 1 after the
\* "Execution failed" line, no target code has run, and no step of the handoff
\* (locating, patching, rewriting, running) changes the session directory or
\* the config file, which stay as the session resolution left them.
C18_MissingTargetExitsCleanly ==
    /\ [](Located /\ NoScriptAnywhere => target_path \notin files)
    /\ [](trace.runs > 0 /\ NoScriptAnywhere =>
              /\ trace.target = "missing"
              /\ ~TargetInvoked
              /\ pc = "done"
              /\ exitCode = 1
              /\ output[Len(output)] = ExecutionFailedLine)
    /\ [][HandoffKeepsDisk]_vars
    /\ [][MissingTargetStep]_vars

C18_Witness ==
    /\ NoScriptAnywhere
    /\ trace.target = "missing"
    /\ exitCode = 1
    /\ trace.login = "ok"
    /\ sessionDir = "new"
    /\ configFile # priorConfig

LoginFailedLine == <<"[WRAPPER] Login failed:", <<>>>>

\* C19: nothing is retried.  In one run garth.resume, garth.login and the target
\* are each called at most once and each prompt is written at most once; after
\* a login or save that raised, and after a handoff that failed, the process
\* has ended with status 1 (no target run after a failed login), and a process
\* that has ended takes no further step.
C19_NoRetries ==
    /\ trace.resumes <= 1
    /\ trace.logins <= 1
    /\ trace.saves <= 1
    /\ trace.runs <= 1
    /\ Count(output, UsernamePrompt) <= 1
    /\ Count(output, PasswordPrompt) <= 1
    /\ trace.login = "raised" \/ SaveRaised =>
           /\ pc = "done"
           /\ exitCode = 1
           /\ trace.runs = 0
           /\ output[Len(output)] = LoginFailedLine
    /\ trace.target \in {"missing", "raised"} =>
           /\ pc = "done"
           /\ exitCode = 1
           /\ output[Len(output)] = ExecutionFailedLine
    /\ pc = "done" => exitCode # Running /\ ~ENABLED Next

C19_Witness ==
    /\ trace.resumes = 1
    /\ trace.check = "resume_raised"
    /\ trace.login = "raised"
    /\ trace.logins = 1
    /\ pc = "done"
    /\ exitCode = 1

\* C20: the exit status of the in-process run.  It is 0 when the target ran to
\* completion; 1, after the "Execution failed" line, when the target raised an
\* ordinary error; and when the target asked to exit with status n it is n,
\* with no "Execution failed" line written.
C20_ExitStatus ==
    /\ trace.target = "returned" => pc = "done" /\ exitCode = 0
    /\ trace.target = "raised" =>
           /\ pc = "done"
           /\ exitCode = 1
           /\ output[Len(output)] = ExecutionFailedLine
    /\ trace.target = "exited" =>
           /\ pc = "done"
           /\ trace.asked \in TargetExitCodes
           /\ exitCode = trace.asked
           /\ ~Contains(output, ExecutionFailedLine)
    /\ trace.target \notin {"exited"} => trace.asked = Running

C20_Witness ==
    /\ trace.target = "exited"
    /\ trace.asked \notin {0, 1}
    /\ exitCode = trace.asked

====
